---- MODULE Spec2Model ----
(***************************************************************************)
(* State-machine model of the keyed reconciliation engine of               *)
(* leptos-animate (src/src/animated_for.rs, component AnimatedFor).        *)
(*                                                                         *)
(* One action per handler of the component:                                *)
(*   Update      the RenderEffect closure (one reconciliation cycle)       *)
(*   Render      the inner <For/> re-rendering items_fn with children_fn   *)
(*   Pass        the closure handed to queue_microtask (enter/move pass)   *)
(*   FinishLeave the onfinish closure of a leave animation                 *)
(*   Scroll      the scroll listener of compensate_window_scroll           *)
(*   Timeout     the timeout callback that removes that listener           *)
(* plus the steps of the host: the end of hydration and an element being   *)
(* detached from the document.                                             *)
(*                                                                         *)
(* Lengths are in units of 0.05px, so that the tolerance of fuzzy_compare  *)
(* (0.1px) is the integer 2.  Elements are laid out in one row.            *)
(***************************************************************************)
EXTENDS Integers, Sequences, FiniteSets, TLC

\* ---------------------------------------------------------------- bounds
NumKeys == 3
OverriddenKeys == 1
NumWidths == 3
NumHeights == 2
MaxResizes == 2
NumDurations == 15
NumFrequencies == 4
NumDampings == 2
NumGains == 1
MaxLen == 3
MaxCycles == 4
NumLayouts == 2
MaxScrolls == 2
MaxMounts == 4
MaxSwaps == 101
MaxLeaving == 2
MaxMargin == 2
MaxOffset == 1
MaxSnapshots == 2

\* The classes of the container: the coarse ones differ by 0.1px in the cell
\* width, the fine ones by 0.05px.
Layouts == {2 * i : i \in 0..(NumLayouts - 1)}
FineLayouts == 0..NumLayouts

\* --------------------------------------------------------------- helpers
None == <<>>
Some(v) == <<v>>
Unwrap(o) == o[1]

\* animated_swap.rs line 29: AnimatedSwap counts its keys modulo 100.
SwapModulus == 100

VARIABLE
    key                \* AnimatedSwap: `key`, StoredValue<i32>, as Some(its value);
                       \* None where AnimatedFor is used on its own

\* The values of K: the keys of the collections where AnimatedFor is used on
\* its own, and under AnimatedSwap the keys 0..99, each as its successor.
Keys == IF key = None THEN 1..NumKeys ELSE 1..SwapModulus

Range(s) == {s[i] : i \in 1..Len(s)}
Contains(s, k) == \E i \in 1..Len(s) : s[i] = k
IndexOf(s, k) == CHOOSE i \in 1..Len(s) : s[i] = k

RECURSIVE SeqsUpTo(_, _)
SeqsUpTo(S, n) ==
    IF n = 0 THEN {<<>>}
    ELSE LET shorter == SeqsUpTo(S, n - 1)
         IN shorter \cup {Append(s, x) : s \in {t \in shorter : Len(t) = n - 1}, x \in S}

\* Collections `each` can return.  With all the keys: the keys in ascending
\* order, a key possibly repeated.  With all but the last key: every sequence.
Collections ==
    {s \in SeqsUpTo(1..NumKeys, MaxLen) : \A i \in 1..(Len(s) - 1) : s[i] <= s[i + 1]}
SmallCollections == SeqsUpTo(1..(NumKeys - 1), MaxLen - 1)

\* .collect::<IndexMap<_, _>>(): a repeated key keeps its first position.
RECURSIVE collect(_)
collect(s) ==
    IF s = <<>> THEN <<>>
    ELSE LET r == collect(SubSeq(s, 1, Len(s) - 1))
         IN IF Contains(r, s[Len(s)]) THEN r ELSE Append(r, s[Len(s)])

\* IndexMap::swap_remove: the last entry takes the place of the removed one.
swap_remove(s, k) ==
    IF ~Contains(s, k) THEN s
    ELSE LET i == IndexOf(s, k)
             n == Len(s)
         IN IF i = n THEN SubSeq(s, 1, n - 1)
            ELSE SubSeq([s EXCEPT ![i] = s[n]], 1, n - 1)

\* IndexMap::extend: an existing key keeps its place, a new one is appended.
RECURSIVE extend(_, _)
extend(s, t) ==
    IF t = <<>> THEN s
    ELSE extend(IF Contains(s, t[1]) THEN s ELSE Append(s, t[1]), Tail(t))

\* One entry of the log of what the last handler did, in the order it did it.
\* `active` is, for the start of an animation, the number of animations that
\* were running on the same element at the moment of the call; for an after
\* snapshot, how far its position is from the before snapshot's.  `keyframes`
\* holds, for the start of a move animation, the keyframes the engine builds
\* (those of an enter or leave animation are the strategy's).
Ev(e, k, kind) ==
    [ev |-> e, key |-> k, kind |-> kind, active |-> 0, strategy |-> "",
     keyframes |-> <<>>]
EvAfter(k, d) ==
    [ev |-> "snapshot_after", key |-> k, kind |-> "", active |-> d, strategy |-> "",
     keyframes |-> <<>>]
EvStart(k, kind, n, strategy) ==
    [ev |-> "animate", key |-> k, kind |-> kind, active |-> n, strategy |-> strategy,
     keyframes |-> <<>>]

\* format!("{}px", v): a CSS length, as its number and its unit.
Px(v) == [value |-> v, unit |-> "px"]

RECURSIVE Flatten(_)
Flatten(ss) == IF ss = <<>> THEN <<>> ELSE ss[1] \o Flatten(Tail(ss))

\* The keys of S in ascending order.
RECURSIVE SetToSeq(_)
SetToSeq(S) ==
    IF S = {} THEN <<>>
    ELSE LET m == CHOOSE x \in S : \A y \in S : x <= y
         IN <<m>> \o SetToSeq(S \ {m})

\* ----------------------------------------------------------------- state
VARIABLES
    mode,              \* "ssr" | "hydrating" | "client"
    appear,            \* prop `appear`
    animate_size,      \* prop `animate_size`
    compensate_window_scroll, \* prop `compensate_window_scroll`
    enter_anim_override, \* prop `enter_anim_override`: None, or Some(the keys of
                       \* the items the function returns a strategy for)
    leave_anim_override, \* prop `leave_anim_override`, likewise
    layout,            \* the container's current class (selects the cell width)
    alive_items,       \* RwSignal<IndexMap<K, T>>, as the sequence of its keys
    leaving_items,     \* RwSignal<IndexMap<K, T>>, as the sequence of its keys
    alive_items_meta,  \* HashMap<K, ItemMeta>: key -> Option<ItemMeta>
    rendered,          \* the keys the inner <For/> rendered last, in DOM order
    mounts,            \* key -> number of times children_fn built a view for it
    connected,         \* key -> is the key's mounted element in the document
    measurable,        \* key -> are the computed margins of its element in pixels
    pin,               \* key -> Option<style pinned on the key's mounted element>
    animations,        \* the animations that were started and not cancelled/finished
    pending,           \* leave starts waiting for a scroll event or the timeout
    microtasks,        \* the queue of pending microtasks (render, deferred passes)
    cycles,            \* number of runs of the RenderEffect so far
    events,            \* log of the last handler
    observer,          \* key -> the Owner of the key's mounted view: "none"
                       \* (no view), "active" or "paused"
    stale,             \* history: the leave animations, and the pending leave
                       \* starts, of a key that entered leaving_items again since
    size_snapshot,     \* SizeTransition: `snapshot`, StoredValue<Option<Extent>>
    resize_animations, \* SizeTransition: the animations it started, in order
    fade_animation,    \* a FadeAnimation value: its duration (ms) and timing_fn
    animation_config,  \* the AnimationConfig its enter()/leave() returned last
    dynamics_args,     \* DynamicsAnimation::new: Option<its arguments f, z, r>
    dynamics,          \* DynamicsAnimation::new: its SecondOrderDynamics
    data,              \* DynamicsAnimation::new: data.len(), the samples pushed
    dynamics_animation, \* Option<the DynamicsAnimation that new() returned>
    element,           \* animation.rs: Option<the element handed to its
                       \* get_el_snapshot: its inline style and its box>
    el_snapshot        \* animation.rs: Option<the last call of get_el_snapshot:
                       \* its number, its arguments, the ElementSnapshot it returned>

vars == <<mode, appear, animate_size, compensate_window_scroll,
          enter_anim_override, leave_anim_override, layout, alive_items, leaving_items, alive_items_meta, rendered, mounts,
          connected, measurable, pin, animations, pending, microtasks, cycles,
          events, stale, observer, size_snapshot, resize_animations, fade_animation,
          animation_config, dynamics_args, dynamics, data, dynamics_animation,
          key, element, el_snapshot>>

\* The state of AnimatedFor, and the state of the other components.
animated_for == <<mode, appear, animate_size, compensate_window_scroll,
                  enter_anim_override, leave_anim_override, layout, alive_items,
                  leaving_items, alive_items_meta, rendered, mounts, connected,
                  measurable, pin, animations, pending, microtasks, cycles,
                  events, stale, observer>>

size_transition == <<size_snapshot, resize_animations>>

strategies == <<fade_animation, animation_config>>

simulation == <<dynamics_args, dynamics, data, dynamics_animation>>

animated_swap == <<key>>

measurement == <<element, el_snapshot>>

other_components == <<size_transition, strategies, simulation, animated_swap, measurement>>

config == <<mode, appear, animate_size, compensate_window_scroll,
            enter_anim_override, leave_anim_override>>

last == events[1].ev

\* ------------------------------------------------- element measurement
Tolerance == 2

\* A comparison that takes a difference of exactly 0.1 for equal.
fuzzy_compare_le(a, b) == (IF a >= b THEN a - b ELSE b - a) <= Tolerance

\* position.rs: (a - b).abs() < 0.1
fuzzy_compare(a, b) == (IF a >= b THEN a - b ELSE b - a) < Tolerance

Abs(a) == IF a >= 0 THEN a ELSE 0 - a
Max(a, b) == IF a >= b THEN a ELSE b

\* The larger of the distances of two positions on the two axes.
Distance(p, q) == Max(Abs(p.x - q.x), Abs(p.y - q.y))

\* impl PartialEq for Position
PositionEq(p, q) == fuzzy_compare(p.x, q.x) /\ fuzzy_compare(p.y, q.y)

\* impl PartialEq for Extent, lifted to Option<Extent> (derived Option equality)
ExtentEq(e, f) ==
    IF e = None \/ f = None THEN e = None /\ f = None
    ELSE fuzzy_compare(Unwrap(e).width, Unwrap(f).width)
         /\ fuzzy_compare(Unwrap(e).height, Unwrap(f).height)

\* The browser's layout: every class gives the cells of the row one width.
CellWidth(l) == 20 + l
CellHeight == 20

InFlow(k) == Contains(rendered, k) /\ connected[k] /\ pin[k] = None

\* Number of elements in normal flow that precede the element of k.
FlowIndex(k) ==
    Cardinality({i \in 1..(IndexOf(rendered, k) - 1) : InFlow(rendered[i])})

\* get_el_snapshot(el, record_extent) for the mounted element of key k.
get_el_snapshot(k, record_extent) ==
    LET detached == ~Contains(rendered, k) \/ ~connected[k]
        x == IF detached THEN 0
             ELSE IF pin[k] # None THEN Unwrap(pin[k]).left
             ELSE FlowIndex(k) * CellWidth(layout)
        y == IF ~detached /\ pin[k] # None THEN Unwrap(pin[k]).top ELSE 0
        w == IF detached THEN 0
             ELSE IF pin[k] # None THEN Unwrap(pin[k]).width
             ELSE CellWidth(layout)
        h == IF detached THEN 0
             ELSE IF pin[k] # None THEN Unwrap(pin[k]).height
             ELSE CellHeight
    IN [position |-> [x |-> x, y |-> y],
        extent |-> IF record_extent THEN Some([width |-> w, height |-> h]) ELSE None]

NoSnapshots == [k \in Keys |-> None]

\* ------------------------------------------------------------ animations
\* An animation object: the element it runs on (key and mount number), its kind
\* and a number telling it from the others of that kind on that element.
Anim(k, el, kind, n) == [key |-> k, el |-> el, kind |-> kind, n |-> n]

FreshN(anims, k, el, kind) ==
    CHOOSE n \in 1..(Cardinality(anims) + 1) :
        /\ Anim(k, el, kind, n) \notin anims
        /\ \A m \in 1..(n - 1) : Anim(k, el, kind, m) \in anims

\* Animation::cancel() on an Option<Animation> handle.
cancel(anims, handle) == IF handle = None THEN anims ELSE anims \ {Unwrap(handle)}

\* impl Default for FadeAnimation (animation_defs.rs lines 87-94).
FadeAnimation_default == [duration |-> 200, timing_fn |-> "ease-out"]

\* The override functions a caller passes: none, or one that returns a strategy
\* for the items with the keys up to OverriddenKeys and None for the others.
Overrides == {None, Some(1..OverriddenKeys)}

\* ------------------------------------------------------------------ Init
\* Owner::pause (line 481) on the Owner of a view; nothing in the source
\* resumes an Owner.
pause(o) == IF o = "none" THEN "none" ELSE "paused"

\* No key has left twice yet.
NoneStale == [leaves |-> {}, starts |-> {}]

\* Lines 464-475: the keys of `removed` enter leaving_items; what was already
\* running or waiting for them belongs to an earlier stay in leaving_items.
leaves_again(h, removed) ==
    [leaves |-> h.leaves \cup {a \in animations :
                                  a.kind = "leave" /\ a.key \in Range(removed)},
     starts |-> h.starts \cup {p \in pending : p.key \in Range(removed)}]

InitAnimatedFor ==
    /\ mode \in {"ssr", "hydrating", "client"}
    /\ appear \in BOOLEAN
    /\ animate_size \in BOOLEAN
    /\ compensate_window_scroll \in BOOLEAN
    /\ enter_anim_override \in Overrides
    /\ leave_anim_override \in Overrides
    /\ layout = 0
    /\ alive_items = <<>>
    /\ leaving_items = <<>>
    /\ alive_items_meta = [k \in Keys |-> None]
    /\ rendered = <<>>
    /\ mounts = [k \in Keys |-> 0]
    /\ connected = [k \in Keys |-> FALSE]
    /\ measurable = [k \in Keys |-> TRUE]
    /\ pin = [k \in Keys |-> None]
    /\ animations = {}
    /\ pending = {}
    /\ microtasks = <<>>
    /\ cycles = 0
    /\ events = <<Ev("init", 0, "")>>
    /\ stale = NoneStale
    /\ observer = [k \in Keys |-> "none"]
    /\ size_snapshot = None
    /\ resize_animations = <<>>
    /\ fade_animation = FadeAnimation_default
    /\ animation_config = None
    /\ dynamics_args = None
    /\ dynamics = None
    /\ data = 0
    /\ dynamics_animation = None
    /\ element = None
    /\ el_snapshot = None

\* AnimatedFor used on its own.
Init ==
    /\ key = None
    /\ InitAnimatedFor

\* ------------------------------------------------------ microtask queue
\* A queued microtask.  A deferred pass holds what its closure captured, the
\* snapshots, and for the record the cycle that queued it: its number, the keys
\* alive and leaving before it, the keys it was given and the views built
\* until then.
Task(type, snapshots, c, old_items, old_leaving, new_items, built) ==
    [type |-> type, snapshots |-> snapshots, cycle |-> c,
     old_items |-> old_items, old_leaving |-> old_leaving,
     new_items |-> new_items, mounts |-> built]

RenderTask == Task("render", NoSnapshots, 0, <<>>, <<>>, <<>>, [k \in Keys |-> 0])
\* A deferred pass that is handed an empty snapshot map.
PassTask_no_snapshots(snapshots, new_items) ==
    Task("pass", NoSnapshots, cycles + 1, alive_items, leaving_items, new_items, mounts)

PassTask(snapshots, new_items) ==
    Task("pass", snapshots, cycles + 1, alive_items, leaving_items, new_items, mounts)

\* A signal the inner <For/> reads was written: its effect is woken, once.
notify(q) ==
    IF \E i \in 1..Len(q) : q[i].type = "render" THEN q ELSE Append(q, RenderTask)

\* When the RenderEffect can run: at construction; afterwards once the host is
\* idle, right after the inner <For/> rendered (same batch of effects), or again
\* right after its own run (the collection was written during the run).  The
\* first run is followed by the synchronous mount of the view, and hydration is
\* one synchronous block around the first run and that mount.
CanRunEffect ==
    \/ cycles = 0
    \/ /\ mode # "hydrating"
       /\ \/ microtasks = <<>>
          \/ last = "render"
          \/ last = "cycle" /\ cycles >= 2

\* ------------------------------------------------ the RenderEffect closure
\* Lines 428-441: the snapshots of the elements registered in ItemMeta that
\* are connected to the document.
before_snapshots ==
    [k \in Keys |->
        IF alive_items_meta[k] # None /\ Contains(rendered, k) /\ connected[k]
        THEN Some(get_el_snapshot(k, TRUE))
        ELSE None]

\* An eviction that takes nothing out.
evict_nothing(leaving, new_items) == leaving

\* An eviction that empties leaving_items.
evict_everything(leaving, new_items) == <<>>

\* Lines 447-453: keys of new_items are taken out of leaving_items.
RECURSIVE evict(_, _)
evict(leaving, new_items) ==
    IF new_items = <<>> THEN leaving
    ELSE evict(swap_remove(leaving, new_items[1]), Tail(new_items))

\* A drain that keeps nothing back.
items_to_remove_all(alive, new_items) == alive

\* A drain that drops what it takes out.
items_to_remove_none(alive, new_items) == <<>>

\* Lines 464-467: the drained entries whose key is not in new_items.
items_to_remove(alive, new_items) ==
    SelectSeq(alive, LAMBDA k : ~Contains(new_items, k))

\* A commit that takes a `continue` for every removed key.
leaves_animated_never(k, snapshots) == FALSE

\* Whether the commit goes past both `continue`s for the removed key k.
leaves_animated(k, snapshots) ==
    alive_items_meta[k] # None /\ snapshots[k] # None

OnElement(anims, k, el) == {a \in anims : a.key = k /\ a.el = el}

\* Lines 515-527: the strategy of the leave animation of the removed item k,
\* the override's when the function is given and returns one for the item.
leave_strategy(k) ==
    IF leave_anim_override # None /\ k \in Unwrap(leave_anim_override)
    THEN "override"
    ELSE "default"

\* Lines 519-547, anim_fn: the leave animation is started, then the animation
\* the item had is cancelled.
anim_fn(anims, k, el, cur_anim) ==
    cancel(anims \cup {Anim(k, el, "leave", FreshN(anims, k, el, "leave"))}, cur_anim)

anim_fn_events(anims, k, el, cur_anim, strategy) ==
    <<EvStart(k, "leave", Cardinality(OnElement(anims, k, el)), strategy)>>
    \o (IF cur_anim # None THEN <<Ev("cancel", k, Unwrap(cur_anim).kind)>> ELSE <<>>)

\* Lines 549-599: what the commit registers for a removed key when
\* compensate_window_scroll is set.
PendingLeave(k, el, cur_anim, strategy) ==
    [key |-> k, el |-> el, cur_anim |-> cur_anim, strategy |-> strategy,
     has_animated |-> FALSE]

\* Lines 469-600, the loop over items_to_remove: the animations afterwards.
RECURSIVE commit_animations(_, _, _)
commit_animations(anims, removed, snapshots) ==
    IF removed = <<>> THEN anims
    ELSE LET k == removed[1]
             m == alive_items_meta[k]
             next == IF leaves_animated(k, snapshots) /\ ~compensate_window_scroll
                     THEN anim_fn(anims, k, Unwrap(Unwrap(m).el), Unwrap(m).cur_anim)
                     ELSE anims
         IN commit_animations(next, Tail(removed), snapshots)

\* A commit that registers no scroll listener and no timeout.
commit_pending_none(removed, snapshots) == {}

commit_pending(removed, snapshots) ==
    IF compensate_window_scroll
    THEN {PendingLeave(k, Unwrap(Unwrap(alive_items_meta[k]).el),
                       Unwrap(alive_items_meta[k]).cur_anim, leave_strategy(k)) :
            k \in {r \in Range(removed) : leaves_animated(r, snapshots)}}
    ELSE {}

\* A pinning at the offset parent's origin.
pinned_style_origin(snapshot) ==
    [left |-> 0, top |-> 0,
     width |-> Unwrap(snapshot.extent).width,
     height |-> Unwrap(snapshot.extent).height]

\* The style the commit sets on the element of a removed key (lines 496-511).
pinned_style(snapshot) ==
    [left |-> snapshot.position.x, top |-> snapshot.position.y,
     width |-> Unwrap(snapshot.extent).width,
     height |-> Unwrap(snapshot.extent).height]

commit_events_of(k, snapshots) ==
    LET m == alive_items_meta[k]
    IN IF m = None THEN <<>>
       ELSE <<Ev("remove_meta", k, ""), Ev("pause", k, "")>>
            \o (IF snapshots[k] = None THEN <<>>
                ELSE <<Ev("on_leave_start", k, ""), Ev("pin", k, "")>>
                     \o (IF compensate_window_scroll
                         THEN <<Ev("listen", k, "")>>
                         ELSE anim_fn_events(animations, k, Unwrap(Unwrap(m).el),
                                             Unwrap(m).cur_anim, leave_strategy(k))))

commit_events(removed, snapshots) ==
    Flatten([i \in 1..Len(removed) |-> commit_events_of(removed[i], snapshots)])

\* Lines 407-410: the collected keys, in the log.
new_items_events(new_items) ==
    [i \in 1..Len(new_items) |-> Ev("new_item", new_items[i], "")]

\* Lines 427-668 up to queue_microtask: the cycle on the client.
Interactive(new_items, new_class) ==
    LET snapshots == before_snapshots
        evicted == {k \in Range(new_items) : Contains(leaving_items, k)}
        leaving1 == evict(leaving_items, new_items)
        removed == items_to_remove(alive_items, new_items)
        first == cycles = 0
    IN /\ leaving_items' = extend(leaving1, removed)
       /\ alive_items' = extend(<<>>, new_items)
       /\ layout' = new_class
       /\ alive_items_meta' =
            [k \in Keys |-> IF k \in Range(removed) THEN None ELSE alive_items_meta[k]]
       /\ pin' = [k \in Keys |->
                    IF k \in Range(removed) /\ leaves_animated(k, snapshots)
                    THEN Some(pinned_style(Unwrap(snapshots[k])))
                    ELSE pin[k]]
       /\ animations' = commit_animations(animations, removed, snapshots)
       /\ pending' = pending \cup commit_pending(removed, snapshots)
       /\ stale' = leaves_again(stale, removed)
       /\ observer' = [k \in Keys |->
                         IF k \in Range(removed) /\ alive_items_meta[k] # None
                         THEN pause(observer[k]) ELSE observer[k]]
       /\ microtasks' =
            IF first /\ ~appear THEN notify(microtasks)
            ELSE Append(notify(microtasks), PassTask(snapshots, new_items))
       /\ events' =
            <<Ev("cycle", 0, "interactive")>>
            \o new_items_events(new_items)
            \o [i \in 1..Len(SetToSeq({k \in Keys : snapshots[k] # None})) |->
                  Ev("snapshot", SetToSeq({k \in Keys : snapshots[k] # None})[i], "")]
            \o [i \in 1..Len(SetToSeq(evicted)) |-> Ev("evict", SetToSeq(evicted)[i], "")]
            \o <<Ev("on_after_snapshot", 0, "")>>
            \o commit_events(removed, snapshots)
            \o <<Ev("commit", 0, "")>>
            \o (IF first /\ ~appear THEN <<>> ELSE <<Ev("queue_microtask", 0, "")>>)

\* A cycle that animates on the server and during hydration too.
NonInteractive_animated(new_items, new_class) == Interactive(new_items, new_class)

\* Lines 412-425: the cycle on the server and during hydration.
NonInteractive(new_items, new_class) ==
    /\ alive_items_meta' = [k \in Keys |-> None]
    /\ alive_items' = new_items
    /\ layout' = new_class
    /\ microtasks' = notify(microtasks)
    /\ events' = <<Ev("cycle", 0, "non-interactive")>>
                 \o new_items_events(new_items)
                 \o <<Ev("clear_meta", 0, ""), Ev("set_alive", 0, ""),
                      Ev("on_after_snapshot", 0, "")>>
    /\ UNCHANGED <<leaving_items, pin, animations, pending, stale, observer>>

\* Lines 428-441 with get_el_snapshot (lines 764-773): taking the before
\* snapshots reaches an element whose computed margin is not in pixels, and
\* `expect("margin-top is not in pixels")` panics.
snapshot_panics ==
    \E k \in Keys :
        /\ alive_items_meta[k] # None
        /\ Contains(rendered, k)
        /\ connected[k]
        /\ ~measurable[k]

\* The task the executor was running when the closure panicked: it never
\* completes, and nothing that is queued behind it runs.
TrapTask == Task("trap", NoSnapshots, 0, <<>>, <<>>, <<>>, [k \in Keys |-> 0])

\* The cycle up to the panic in the before snapshots: the collection was read
\* (lines 407-410) and nothing was written.
Panicked(new_items) ==
    /\ microtasks' = <<TrapTask>> \o microtasks
    /\ events' = <<Ev("panic", 0, "")>> \o new_items_events(new_items)
    /\ UNCHANGED <<layout, alive_items, leaving_items, alive_items_meta, pin,
                   animations, pending, stale, observer>>

RECURSIVE Sum(_, _)
Sum(f, S) ==
    IF S = {} THEN 0
    ELSE LET x == CHOOSE y \in S : TRUE IN f[x] + Sum(f, S \ {x})

\* The views built so far, and those the next render will build after a
\* cycle for new_items.
MountsAfter(new_items) ==
    Sum(mounts, Keys)
    + Cardinality((Range(new_items) \cup Range(alive_items) \cup Range(leaving_items))
                  \ Range(rendered))

\* One run of the RenderEffect closure (lines 406-669) for the collection
\* `each` returns; new_class is the class the post-snapshot callback sets.
Effect(each, new_class) ==
    /\ cycles' = cycles + 1
    /\ IF mode # "client"
       THEN NonInteractive(collect(each), new_class)
       ELSE IF snapshot_panics
            THEN Panicked(collect(each))
            ELSE Interactive(collect(each), new_class)
    /\ UNCHANGED <<size_transition, strategies, simulation, measurement, config, rendered, mounts,
                   connected, measurable>>

\* The effect runs because the collection that `each` reads has changed.
Update(each, new_class) ==
    /\ cycles < MaxCycles
    /\ MountsAfter(collect(each)) <= MaxMounts
    /\ CanRunEffect
    /\ Effect(each, new_class)
    /\ UNCHANGED key

\* animated_swap.rs lines 34-37, `each`: the one key the counter stands at,
\* the value s of the source as s + 1.
AnimatedSwap_each(s) == <<s + 1>>

\* AnimatedSwap: `content` changes.  The Memo `element` runs again and moves
\* the counter on (lines 28-32), then the effect runs with `each`.  In the
\* first run `each` reads the counter after the Memo has run or before it
\* (the Memo then runs when children_fn reads it, line 39).
Swap ==
    /\ key # None
    /\ cycles < MaxSwaps
    /\ Len(leaving_items) < MaxLeaving
    /\ microtasks = <<>>
    /\ LET k == (Unwrap(key) + 1) % SwapModulus
       IN /\ key' = Some(k)
          /\ \E read \in (IF cycles = 0 THEN {Unwrap(key), k} ELSE {k}) :
                Effect(AnimatedSwap_each(read), layout)

\* ------------------------------------------------------- the inner <For/>
\* Lines 673-683: alive keys, then leaving keys.
items_fn == alive_items \o leaving_items

\* Lines 697-708 of children_fn: the item is looked up in alive_items, then in
\* leaving_items; without an item the view is empty.
child_view_found(k) == Contains(alive_items, k) \/ Contains(leaving_items, k)

\* Lines 710-733, add_to_meta: a new ItemMeta replaces whatever the key had.
add_to_meta(meta, k, el) ==
    [meta EXCEPT ![k] = Some([el |-> el, cur_anim |-> None])]

RECURSIVE add_all_to_meta(_, _)
add_all_to_meta(meta, ks) ==
    IF ks = <<>> THEN meta
    ELSE add_all_to_meta(
            add_to_meta(meta, ks[1],
                        IF mode = "ssr" THEN None ELSE Some(mounts[ks[1]] + 1)),
            Tail(ks))

\* The keyed <For each=items_fn key children=children_fn/> (line 741) renders
\* again: a key it did not have gets its view built by children_fn, a key that
\* is gone has its view unmounted, a key it keeps keeps its element.
Render ==
    /\ microtasks # <<>>
    /\ Head(microtasks).type = "render"
    /\ LET items == items_fn
           new == SelectSeq(items, LAMBDA k : ~Contains(rendered, k))
           gone == SelectSeq(rendered, LAMBDA k : ~Contains(items, k))
           built == SelectSeq(new, child_view_found)
       IN /\ rendered' = items
          /\ mounts' = [k \in Keys |->
                          IF k \in Range(built) THEN mounts[k] + 1 ELSE mounts[k]]
          /\ connected' = [k \in Keys |->
                             IF k \in Range(built) THEN TRUE
                             ELSE IF k \in Range(gone) THEN FALSE
                             ELSE connected[k]]
          /\ measurable' = [k \in Keys |->
                              IF k \in Range(built) THEN TRUE ELSE measurable[k]]
          /\ pin' = [k \in Keys |->
                       IF k \in Range(new) \cup Range(gone) THEN None ELSE pin[k]]
          /\ alive_items_meta' = add_all_to_meta(alive_items_meta, built)
          /\ observer' = [k \in Keys |->
                            IF k \in Range(built) THEN "active"
                            ELSE IF k \in Range(gone) THEN "none"
                            ELSE observer[k]]
          /\ events' = <<Ev("render", 0, "")>>
                       \o [i \in 1..Len(gone) |-> Ev("unmount", gone[i], "")]
                       \o [i \in 1..Len(built) |-> Ev("children", built[i], "")]
    /\ microtasks' = Tail(microtasks)
    /\ UNCHANGED <<other_components, config, layout, alive_items, leaving_items, animations,
                   pending, cycles, stale>>

\* --------------------------------------------------- the deferred pass
\* Lines 652-654: whether the pass finds the item where and as it was.
same_snapshot(prev_snapshot, new_snapshot) ==
    /\ PositionEq(prev_snapshot.position, new_snapshot.position)
    /\ \/ new_snapshot.extent = None
       \/ ExtentEq(new_snapshot.extent, prev_snapshot.extent)

\* What the pass starts for the key k of alive_items_meta: "enter", "move" or "".
pass_kind(k, snapshots) ==
    IF snapshots[k] = None THEN "enter"
    ELSE IF same_snapshot(Unwrap(snapshots[k]), get_el_snapshot(k, animate_size))
         THEN ""
         ELSE "move"

\* The animation the pass starts for k, after cancelling the one k had.
pass_anim(k, kind) ==
    LET m == Unwrap(alive_items_meta[k])
    IN Anim(k, Unwrap(m.el), kind,
            FreshN(cancel(animations, m.cur_anim), k, Unwrap(m.el), kind))

\* Lines 629-642: the strategy of the enter animation of k.  The override
\* function is applied to the item alive_items holds for k when the pass runs.
enter_strategy(k) ==
    IF /\ enter_anim_override # None
       /\ Contains(alive_items, k)
       /\ k \in Unwrap(enter_anim_override)
    THEN "override"
    ELSE "default"

\* struct MoveAnimKeyframe (lines 31-45), serialised: a width or height that
\* is None is left out of the keyframe.
MoveAnimKeyframe(transform, extent) ==
    [transformOrigin |-> "top left", transform |-> transform,
     width |-> IF extent = None THEN None ELSE Some(Px(Unwrap(extent).width)),
     height |-> IF extent = None THEN None ELSE Some(Px(Unwrap(extent).height))]

\* format!("translate({}px, {}px)", x, y)
Translate(x, y) == <<"translate", Px(x), Px(y)>>

\* Keyframes that translate by the way the element went.
MoveAnimationKeyframes_forward(prev_snapshot, new_snapshot, size) ==
    <<MoveAnimKeyframe(Translate(new_snapshot.position.x - prev_snapshot.position.x,
                                 new_snapshot.position.y - prev_snapshot.position.y),
                       IF size THEN prev_snapshot.extent ELSE None),
      MoveAnimKeyframe(<<"none">>, IF size THEN new_snapshot.extent ELSE None)>>

\* MoveAnimationHandler::animate (lines 190-230): the keyframes it hands to
\* the engine; `size` is its parameter animate_size.
MoveAnimationKeyframes(prev_snapshot, new_snapshot, size) ==
    LET diff == [x |-> prev_snapshot.position.x - new_snapshot.position.x,
                 y |-> prev_snapshot.position.y - new_snapshot.position.y]
    IN <<MoveAnimKeyframe(Translate(diff.x, diff.y),
                          IF size THEN prev_snapshot.extent ELSE None),
         MoveAnimKeyframe(<<"none">>, IF size THEN new_snapshot.extent ELSE None)>>

pass_events_of(k, snapshots) ==
    LET m == Unwrap(alive_items_meta[k])
        kind == pass_kind(k, snapshots)
        cancelled == IF m.cur_anim # None
                     THEN <<Ev("cancel", k, Unwrap(m.cur_anim).kind)>> ELSE <<>>
        call == EvStart(k, kind,
                        Cardinality(OnElement(cancel(animations, m.cur_anim),
                                              k, Unwrap(m.el))),
                        IF kind = "enter" THEN enter_strategy(k) ELSE "default")
        started == IF kind = "move"
                   THEN <<[call EXCEPT !.keyframes =
                              MoveAnimationKeyframes(Unwrap(snapshots[k]),
                                  get_el_snapshot(k, animate_size), animate_size)]>>
                   ELSE <<call>>
    IN IF kind = "enter"
       THEN <<Ev("on_enter_start", k, "")>> \o cancelled \o started
       ELSE <<EvAfter(k, Distance(Unwrap(snapshots[k]).position,
                                   get_el_snapshot(k, animate_size).position))>>
            \o (IF kind = "move" THEN cancelled \o started ELSE <<>>)

\* The closure queued by queue_microtask (lines 615-668).
Pass ==
    /\ microtasks # <<>>
    /\ Head(microtasks).type = "pass"
    /\ LET snapshots == Head(microtasks).snapshots
           metas == {k \in Keys : alive_items_meta[k] # None}
           animated == {k \in metas : pass_kind(k, snapshots) # ""}
       IN /\ animations' =
                {a \in animations :
                    \A k \in animated :
                        Unwrap(alive_items_meta[k]).cur_anim # Some(a)}
                \cup {pass_anim(k, pass_kind(k, snapshots)) : k \in animated}
          /\ alive_items_meta' =
                [k \in Keys |->
                    IF k \in animated
                    THEN Some([Unwrap(alive_items_meta[k]) EXCEPT
                                 !.cur_anim = Some(pass_anim(k, pass_kind(k, snapshots)))])
                    ELSE alive_items_meta[k]]
          /\ events' = <<Ev("pass", Head(microtasks).cycle, "")>>
                       \o Flatten([i \in 1..Len(SetToSeq(metas)) |->
                                     pass_events_of(SetToSeq(metas)[i], snapshots)])
    /\ microtasks' = Tail(microtasks)
    /\ UNCHANGED <<other_components, config, layout, alive_items, leaving_items, rendered, mounts,
                   connected, measurable, pin, pending, cycles, stale, observer>>

\* ------------------------------------------------- events of the host
\* The onfinish closure of a leave animation (lines 536-546).
FinishLeave(a) ==
    /\ microtasks = <<>>
    /\ a \in animations
    /\ a.kind = "leave"
    /\ animations' = animations \ {a}
    /\ leaving_items' = swap_remove(leaving_items, a.key)
    /\ microtasks' = notify(microtasks)
    /\ events' = <<Ev("finish", a.key, "leave")>>
    /\ stale' = [stale EXCEPT !.leaves = @ \ {a}]
    /\ UNCHANGED <<other_components, config, layout, alive_items, alive_items_meta, rendered, mounts,
                   connected, measurable, pin, pending, cycles, observer>>

LeavesOn(anims, k, el) == {a \in OnElement(anims, k, el) : a.kind = "leave"}

RECURSIVE scroll_animations(_, _)
scroll_animations(anims, ps) ==
    IF ps = {} THEN anims
    ELSE LET p == CHOOSE q \in ps : TRUE
         IN scroll_animations(anim_fn(anims, p.key, p.el, p.cur_anim), ps \ {p})

\* The scroll listener of every pending leave start (lines 555-576).
Scroll ==
    /\ microtasks = <<>>
    /\ pending # {}
    /\ \A p \in pending : Cardinality(LeavesOn(animations, p.key, p.el)) < MaxScrolls
    /\ animations' = scroll_animations(animations, pending)
    /\ pending' = {[p EXCEPT !.has_animated = TRUE] : p \in pending}
    /\ stale' = [leaves |-> stale.leaves \cup
                     {a \in animations' \ animations :
                         \E p \in stale.starts : p.key = a.key /\ p.el = a.el},
                 starts |-> {[p EXCEPT !.has_animated = TRUE] : p \in stale.starts}]
    /\ events' = <<Ev("scroll", 0, "")>>
                 \o Flatten([i \in 1..Len(SetToSeq({p.key : p \in pending})) |->
                      LET k == SetToSeq({p.key : p \in pending})[i]
                          p == CHOOSE q \in pending : q.key = k
                      IN anim_fn_events(animations, p.key, p.el, p.cur_anim, p.strategy)])
    /\ UNCHANGED <<other_components, config, layout, alive_items, leaving_items, alive_items_meta,
                   rendered, mounts, connected, measurable, pin, microtasks,
                   cycles, observer>>

\* The timeout callback of a pending leave start (lines 584-596).
Timeout(p) ==
    /\ microtasks = <<>>
    /\ p \in pending
    /\ pending' = pending \ {p}
    /\ animations' = IF p.has_animated THEN animations
                     ELSE anim_fn(animations, p.key, p.el, p.cur_anim)
    /\ stale' = [leaves |-> stale.leaves \cup
                     (IF p \in stale.starts THEN animations' \ animations ELSE {}),
                 starts |-> stale.starts \ {p}]
    /\ events' = <<Ev("timeout", p.key, "")>>
                 \o (IF p.has_animated THEN <<>>
                     ELSE anim_fn_events(animations, p.key, p.el, p.cur_anim, p.strategy))
    /\ UNCHANGED <<other_components, config, layout, alive_items, leaving_items, alive_items_meta,
                   rendered, mounts, connected, measurable, pin, microtasks,
                   cycles, observer>>

\* Hydration is complete: during_hydration() (line 413) is false from now on.
EndHydration ==
    /\ mode = "hydrating"
    /\ cycles >= 1
    /\ microtasks = <<>>
    /\ mode' = "client"
    /\ events' = <<Ev("hydrated", 0, "")>>
    /\ UNCHANGED <<other_components, appear, animate_size, compensate_window_scroll,
                   enter_anim_override, leave_anim_override, layout, alive_items, leaving_items, alive_items_meta, rendered, mounts,
                   connected, measurable, pin, animations, pending, microtasks, cycles, stale, observer>>

\* The element registered for k is taken out of the document (is_connected(),
\* line 433, is false from now on).
Detach(k) ==
    /\ microtasks = <<>>
    /\ alive_items_meta[k] # None
    /\ Contains(rendered, k)
    /\ connected[k]
    /\ connected' = [connected EXCEPT ![k] = FALSE]
    /\ events' = <<Ev("detach", k, "")>>
    /\ UNCHANGED <<other_components, config, layout, alive_items, leaving_items, alive_items_meta,
                   rendered, mounts, measurable, pin, animations, pending,
                   microtasks, cycles, stale, observer>>

\* The element registered for k stops being rendered while its margin is not
\* an absolute length (display: none with margin: auto or a percentage): the
\* computed margin (lines 755-757) is no longer a pixel value.  It happens
\* between two tasks of the page, so no deferred pass is waiting.
Hide(k) ==
    /\ microtasks = <<>>
    /\ alive_items_meta[k] # None
    /\ Contains(rendered, k)
    /\ connected[k]
    /\ measurable[k]
    /\ measurable' = [measurable EXCEPT ![k] = FALSE]
    /\ events' = <<Ev("hide", k, "")>>
    /\ UNCHANGED <<other_components, config, layout, alive_items, leaving_items, alive_items_meta,
                   rendered, mounts, connected, pin, animations, pending,
                   microtasks, cycles, stale, observer>>

\* -------------------------------------------------------- SizeTransition
\* The border-box sizes the ResizeObserver reports.
Widths == {100 + 20 * i : i \in 0..(NumWidths - 1)}
Heights == {20 + 10 * i : i \in 0..(NumHeights - 1)}
Extents == [width : Widths, height : Heights]

\* Keyframes that run from the new size to the old one.
SizeTransitionKeyframes_reversed(snap, new_snapshot) ==
    [i \in 1..2 |->
        LET e == <<new_snapshot, snap>>[i]
        IN [marginRight |-> Px(e.width - snap.width),
            marginBottom |-> Px(e.height - snap.height)]]

\* size_transition.rs lines 47-56: one keyframe for each of [snapshot,
\* new_snapshot], serialised in camelCase.
SizeTransitionKeyframes(snap, new_snapshot) ==
    [i \in 1..2 |->
        LET e == <<snap, new_snapshot>>[i]
        IN [marginRight |-> Px(e.width - new_snapshot.width),
            marginBottom |-> Px(e.height - new_snapshot.height)]]

\* SizeTransitionHandler::animate (lines 43-66): the animation it starts.
SizeTransitionHandler_animate(snap, new_snapshot) ==
    [from |-> snap, to |-> new_snapshot,
     keyframes |-> SizeTransitionKeyframes(snap, new_snapshot),
     fill |-> "none"]

\* A callback that animates on the first observation too.
resize_started_always(baseline, new_snapshot) ==
    <<SizeTransitionHandler_animate(
        IF baseline # None THEN Unwrap(baseline) ELSE new_snapshot, new_snapshot)>>

\* Lines 112-114: what the observer callback starts, given the baseline.
resize_started(baseline, new_snapshot) ==
    IF baseline # None
    THEN <<SizeTransitionHandler_animate(Unwrap(baseline), new_snapshot)>>
    ELSE <<>>

\* The callback of use_resize_observer (lines 104-117) for an observation of
\* new_snapshot.
Observe(new_snapshot) ==
    /\ Len(resize_animations) < MaxResizes
    /\ resize_animations' = resize_animations \o resize_started(size_snapshot, new_snapshot)
    /\ size_snapshot' = Some(new_snapshot)
    /\ UNCHANGED <<animated_for, animated_swap, measurement, strategies, simulation>>

\* --------------------------------------------------------- FadeAnimation
Durations == {100 * i : i \in 1..NumDurations}
TimingFns == {"linear", "ease-in", "ease-out"}

\* FadeAnimation::new (animation_defs.rs lines 79-84).
FadeAnimation_new(duration, timing_fn) ==
    [duration |-> duration, timing_fn |-> timing_fn]

\* impl EnterAnimation for FadeAnimation (lines 102-118).
FadeAnimation_enter(self) ==
    [duration |-> self.duration,
     timing_fn |-> Some(self.timing_fn),
     keyframes |-> <<[opacity |-> 0], [opacity |-> 1]>>]

\* A leave that fades in.
FadeAnimation_leave_in(self) == FadeAnimation_enter(self)

\* impl LeaveAnimation for FadeAnimation (lines 120-136).
FadeAnimation_leave(self) ==
    [duration |-> self.duration,
     timing_fn |-> Some(self.timing_fn),
     keyframes |-> <<[opacity |-> 1], [opacity |-> 0]>>]

NewFade(duration, timing_fn) ==
    /\ fade_animation' = FadeAnimation_new(duration, timing_fn)
    /\ animation_config' = None
    /\ UNCHANGED <<animated_for, animated_swap, measurement, size_transition, simulation>>

Enter ==
    /\ animation_config' = Some([call |-> "enter", config |-> FadeAnimation_enter(fade_animation)])
    /\ UNCHANGED <<animated_for, animated_swap, measurement, size_transition, simulation, fade_animation>>

Leave ==
    /\ animation_config' = Some([call |-> "leave", config |-> FadeAnimation_leave(fade_animation)])
    /\ UNCHANGED <<animated_for, animated_swap, measurement, size_transition, simulation, fade_animation>>

\* ----------------------------------------------------- DynamicsAnimation
\* Floating point numbers are carried as multiples of 1/Unit, rounded to the
\* nearest, up to Limit in magnitude.  NotFinite stands for every value beyond
\* that and for the infinities and NaN; an operation on it gives it again.
Unit == 10000
Limit == 1000 * Unit
NotFinite == Limit + 1

Fin(x) == IF x > Limit \/ x < 0 - Limit THEN NotFinite ELSE x

FAdd(a, b) == IF a = NotFinite \/ b = NotFinite THEN NotFinite ELSE Fin(a + b)
FSub(a, b) == IF a = NotFinite \/ b = NotFinite THEN NotFinite ELSE Fin(a - b)

\* The product of two magnitudes, in parts that stay within 32 bits.
FMulAbs(a, b) ==
    LET a1 == a \div Unit
        a0 == a % Unit
        b1 == b \div Unit
        b0 == b % Unit
    IN IF a1 * b1 > Limit \div Unit THEN NotFinite
       ELSE a1 * b1 * Unit + a1 * b0 + a0 * b1 + ((a0 * b0 + Unit \div 2) \div Unit)

FMul(a, b) ==
    IF a = NotFinite \/ b = NotFinite THEN NotFinite
    ELSE LET m == FMulAbs(Abs(a), Abs(b))
         IN Fin(IF (a < 0) = (b < 0) \/ m = NotFinite THEN m ELSE 0 - m)

\* a / b; a division by zero gives an infinity or NaN.
FDiv(a, b) ==
    IF a = NotFinite \/ b = NotFinite \/ b = 0 THEN NotFinite
    ELSE LET q == (Abs(a) * Unit + Abs(b) \div 2) \div Abs(b)
         IN Fin(IF (a < 0) = (b < 0) THEN q ELSE 0 - q)

PI == 31416
ITERATION_RATE == 15 * Unit
IterationCap == 1000

\* The arguments new() is called with.
Frequencies == {(i * Unit) \div 2 : i \in 0..NumFrequencies}
Dampings == {(i * Unit) \div 2 : i \in 1..NumDampings}
Gains == {i * Unit : i \in 0..NumGains}

\* SecondOrderDynamics::new (dynamics.rs lines 59-70).
SecondOrderDynamics_new(f, z, r, x0) ==
    [goal |-> x0, y |-> x0, yd |-> 0,
     k1 |-> FDiv(z, FMul(PI, f)),
     k2 |-> FDiv(Unit, FMul(FMul(FMul(2 * Unit, PI), f), FMul(FMul(2 * Unit, PI), f))),
     k3 |-> FDiv(FMul(r, z), FMul(FMul(2 * Unit, PI), f))]

\* SecondOrderDynamics::update (dynamics.rs lines 73-83).
update(self, new_goal, dt) ==
    LET xd == FMul(FSub(new_goal, self.goal), FDiv(Unit, dt))
        y == FAdd(self.y, FMul(self.yd, dt))
        yd == FAdd(FMul(FSub(FSub(FAdd(new_goal, FMul(xd, self.k3)), y),
                             FMul(self.yd, self.k1)),
                        FDiv(dt, self.k2)),
                   self.yd)
    IN [self EXCEPT !.goal = new_goal, !.y = y, !.yd = yd]

\* animation_defs.rs lines 187-189: (a - b).abs() < 0.01, false on NaN.
velocity_converged(a, b) ==
    /\ a # NotFinite
    /\ b # NotFinite
    /\ Abs(a - b) < Unit \div 100

\* Lines 222-227: the value new() returns, with the number of samples in its
\* timing function and its duration in milliseconds.
DynamicsAnimation(samples) ==
    [samples |-> samples,
     duration |-> (samples * 1000) \div (ITERATION_RATE \div Unit)]

\* DynamicsAnimation::new(f, z, r) up to its loop (lines 203-208).
New(f, z, r) ==
    /\ dynamics_args = None
    /\ dynamics_args' = Some([f |-> f, z |-> z, r |-> r])
    /\ dynamics' = Some(SecondOrderDynamics_new(f, z, r, 0))
    /\ data' = 0
    /\ UNCHANGED <<animated_for, animated_swap, measurement, size_transition, strategies, dynamics_animation>>

\* One iteration of the loop (lines 209-220) and, when it breaks, the rest of
\* new() (lines 222-227).
Iterate ==
    /\ dynamics # None
    /\ dynamics_animation = None
    /\ LET next == update(Unwrap(dynamics), Unit, FDiv(Unit, ITERATION_RATE))
       IN /\ dynamics' = Some(next)
          /\ data' = data + 1
          /\ dynamics_animation' =
                IF data + 1 > IterationCap \/ velocity_converged(next.yd, 0)
                THEN Some(DynamicsAnimation(data + 1))
                ELSE None
    /\ UNCHANGED <<animated_for, animated_swap, measurement, size_transition, strategies, dynamics_args>>

\* ------------------------------------------- animation.rs: get_el_snapshot
\* The inline style of an element (el.style()), as the properties the
\* application or the snapshot set on it: property -> Option<value>.
StyleProperties == {"margin", "opacity"}

\* CSSStyleDeclaration.setProperty and removeProperty
set_property(style, property, value) == [style EXCEPT ![property] = Some(value)]
remove_property(style, property) == [style EXCEPT ![property] = None]

\* The elements a view hands over: an inline margin or none, an inline opacity
\* or none, the margin its stylesheet gives it, and the place and the size of
\* its border box without any margin.
InlineMargins == {None} \cup {Some(Px(4 * i)) : i \in 0..MaxMargin}
Elements ==
    [style : {st \in [StyleProperties -> InlineMargins] :
                 st["opacity"] \in {None, Some(Px(0))}},
     margin : {4 * i : i \in 0..MaxMargin},
     left : {10 * i : i \in 0..MaxOffset},
     top : {0},
     width : {CellWidth(0)},
     height : {CellHeight}]

\* The margin the browser lays the element out with: the inline declaration
\* wins over the stylesheet.
used_margin(e) ==
    IF e.style["margin"] # None THEN Unwrap(e.style["margin"]).value ELSE e.margin

\* HTMLElement.offsetLeft / offsetTop: the margin shifts the border box.
offset_left(e) == e.left + used_margin(e)
offset_top(e) == e.top + used_margin(e)

\* impl Default for Extent
Extent_default == [width |-> 0, height |-> 0]

\* animation.rs lines 560-589, get_el_snapshot(el, record_extent,
\* handle_margins): the element as the call leaves it, and the snapshot.
animation_get_el_snapshot(e, record_extent, handle_margins) ==
    LET extent == IF record_extent
                  THEN [width |-> e.width, height |-> e.height]
                  ELSE Extent_default
        zeroed == IF handle_margins
                  THEN [e EXCEPT !.style = set_property(@, "margin", Px(0))]
                  ELSE e
        position == [x |-> offset_left(zeroed), y |-> offset_top(zeroed)]
        after == IF handle_margins
                 THEN [zeroed EXCEPT !.style = remove_property(@, "margin")]
                 ELSE zeroed
    IN [el |-> after, snapshot |-> [position |-> position, extent |-> extent]]

\* animation.rs line 449: children_fn takes the element out of the view it
\* built, with the inline style the view gave it.
ExtractElement(e) ==
    /\ element = None
    /\ element' = Some(e)
    /\ UNCHANGED <<animated_for, size_transition, strategies, simulation, animated_swap,
                   el_snapshot>>

\* animation.rs lines 250 and 396: a snapshot of the element is taken.
TakeSnapshot(record_extent, handle_margins) ==
    /\ element # None
    /\ (IF el_snapshot = None THEN 0 ELSE Unwrap(el_snapshot).n) < MaxSnapshots
    /\ LET r == animation_get_el_snapshot(Unwrap(element), record_extent, handle_margins)
       IN /\ element' = Some(r.el)
          /\ el_snapshot' = Some([n |-> (IF el_snapshot = None THEN 0
                                         ELSE Unwrap(el_snapshot).n) + 1,
                                  record_extent |-> record_extent,
                                  handle_margins |-> handle_margins,
                                  snapshot |-> r.snapshot])
    /\ UNCHANGED <<animated_for, size_transition, strategies, simulation, animated_swap>>

\* ------------------------------------------------------------------ Spec
NoOverrides == enter_anim_override = None /\ leave_anim_override = None

\* The engine on the client, with the default props but `appear`.
InitClient ==
    /\ Init
    /\ NoOverrides
    /\ mode = "client"
    /\ ~animate_size
    /\ ~compensate_window_scroll

Next ==
    \/ \E each \in Collections : Update(each, layout)
    \/ Render
    \/ Pass
    \/ \E a \in animations : FinishLeave(a)

Spec == InitClient /\ [][Next]_vars

\* On the server and through hydration.
InitModes ==
    /\ Init
    /\ NoOverrides
    /\ mode # "client"
    /\ ~animate_size
    /\ ~compensate_window_scroll

NextModes ==
    \/ \E each \in SmallCollections : Update(each, layout)
    \/ Render
    \/ Pass
    \/ \E a \in animations : FinishLeave(a)
    \/ EndHydration

SpecModes == InitModes /\ [][NextModes]_vars

\* With elements that get detached from the document.
NextDetach ==
    \/ \E each \in SmallCollections : Update(each, layout)
    \/ Render
    \/ Pass
    \/ \E a \in animations : FinishLeave(a)
    \/ \E k \in Keys : Detach(k)

SpecDetach == InitClient /\ [][NextDetach]_vars

\* With elements whose margins stop being measurable.
NextHidden ==
    \/ \E each \in SmallCollections : Update(each, layout)
    \/ Render
    \/ Pass
    \/ \E a \in animations : FinishLeave(a)
    \/ \E k \in Keys : Hide(k)

SpecHidden == InitClient /\ [][NextHidden]_vars

\* With a post-snapshot callback that sets the container's class, and with
\* either value of `animate_size`.
InitLayout ==
    /\ Init
    /\ NoOverrides
    /\ mode = "client"
    /\ ~appear
    /\ ~compensate_window_scroll

NextLayout ==
    \/ \E each \in SmallCollections, new_class \in Layouts : Update(each, new_class)
    \/ Render
    \/ Pass
    \/ \E a \in animations : FinishLeave(a)

SpecLayout == InitLayout /\ [][NextLayout]_vars

\* With a post-snapshot callback that changes the cell width by 0.05px steps.
NextMeasure ==
    \/ /\ cycles < MaxCycles - 1
       /\ \E each \in SmallCollections, new_class \in FineLayouts :
              Update(each, new_class)
    \/ Render
    \/ Pass
    \/ \E a \in animations : FinishLeave(a)

SpecMeasure == InitLayout /\ [][NextMeasure]_vars

\* With per-item override functions, or without.
InitOverride ==
    /\ Init
    /\ mode = "client"
    /\ ~appear
    /\ ~animate_size
    /\ ~compensate_window_scroll

NextOverride ==
    \/ \E each \in SmallCollections : Update(each, layout)
    \/ Render
    \/ Pass
    \/ \E a \in animations : FinishLeave(a)

SpecOverride == InitOverride /\ [][NextOverride]_vars

\* AnimatedShow (animated_show.rs): an AnimatedFor over the collection that
\* holds one item while `when` is true and none otherwise, every item under
\* the same key (the constant 0 of the source is the first key here).
ShowKey == 1

AnimatedShow_each(when) == IF when THEN <<ShowKey>> ELSE <<>>

NextShow ==
    \/ \E when \in BOOLEAN : Update(AnimatedShow_each(when), layout)
    \/ Render
    \/ Pass
    \/ \E a \in animations : FinishLeave(a)

SpecShow == InitClient /\ [][NextShow]_vars

\* AnimatedSwap (animated_swap.rs lines 41-52) with its default props: an
\* AnimatedFor with animate_size set, over the one key of the counter.
InitSwap ==
    /\ key = Some(0)
    /\ InitAnimatedFor
    /\ NoOverrides
    /\ mode = "client"
    /\ ~appear
    /\ animate_size
    /\ ~compensate_window_scroll

NextSwap ==
    \/ Swap
    \/ Render
    \/ Pass
    \/ \E a \in animations : FinishLeave(a)

SpecSwap == InitSwap /\ [][NextSwap]_vars

\* SizeTransition under the observations of its ResizeObserver.
NextResize ==
    \E new_snapshot \in Extents : Observe(new_snapshot)

SpecResize == InitClient /\ [][NextResize]_vars

\* The animation strategies are values of their own: one configuration of
\* AnimatedFor stands beside them.
InitStrategies == InitClient /\ ~appear

\* FadeAnimation: the default value, values made by new(), and their configs.
NextFade ==
    \/ \E duration \in Durations, timing_fn \in TimingFns : NewFade(duration, timing_fn)
    \/ Enter
    \/ Leave

SpecFade == InitStrategies /\ [][NextFade]_vars

\* DynamicsAnimation::new for some arguments.
NextDynamics ==
    \/ \E f \in Frequencies, z \in Dampings, r \in Gains : New(f, z, r)
    \/ Iterate

SpecDynamics == InitStrategies /\ [][NextDynamics]_vars

\* get_el_snapshot of animation.rs on the elements of the views.
NextMargins ==
    \/ \E e \in Elements : ExtractElement(e)
    \/ \E record_extent, handle_margins \in BOOLEAN :
          TakeSnapshot(record_extent, handle_margins)

SpecMargins == InitStrategies /\ [][NextMargins]_vars

\* With compensate_window_scroll.
InitScroll ==
    /\ Init
    /\ NoOverrides
    /\ mode = "client"
    /\ ~appear
    /\ ~animate_size
    /\ compensate_window_scroll

NextScroll ==
    \/ \E each \in SmallCollections : Update(each, layout)
    \/ Render
    \/ Pass
    \/ \E a \in animations : FinishLeave(a)
    \/ Scroll
    \/ \E p \in pending : Timeout(p)

SpecScroll == InitScroll /\ [][NextScroll]_vars

\* ---------------------------------------------------------------- claims
NoDuplicates(s) == \A i, j \in 1..Len(s) : i # j => s[i] # s[j]

\* The animations of one kind a handler's log shows started for the key k.
StartsOf(evs, k, kind) ==
    {i \in 1..Len(evs) : evs[i].ev = "animate" /\ evs[i].key = k /\ evs[i].kind = kind}

Starts(evs) == {i \in 1..Len(evs) : evs[i].ev = "animate"}

\* The collection a logged cycle was given.
RECURSIVE NewItemsOf(_)
NewItemsOf(evs) ==
    IF evs = <<>> THEN <<>>
    ELSE (IF evs[1].ev = "new_item" THEN <<evs[1].key>> ELSE <<>>)
         \o NewItemsOf(Tail(evs))

\* The step is a run of the RenderEffect / of a deferred pass.
IsUpdate == cycles' = cycles + 1
IsPass == microtasks # <<>> /\ microtasks' = Tail(microtasks) /\ events'[1].ev = "pass"

\* Every key of the sequence has its view mounted and in the document.
AllMounted(items) ==
    \A k \in Range(items) :
        alive_items_meta[k] # None /\ Contains(rendered, k) /\ connected[k]

\* The keys a cycle added to, kept in and removed from the AliveSet.
Added(task) == Range(task.new_items) \ Range(task.old_items)
Kept(task) == Range(task.new_items) \cap Range(task.old_items)
Settled(task) == \A k \in Range(task.old_items) : task.snapshots[k] # None

\* C1: in every reachable state the key list handed to the renderer, the
\* AliveSet keys followed by the LeavingSet keys, holds no key twice (AliveSet
\* and LeavingSet are disjoint), and once the pending renders have run it is the
\* list the renderer shows.
C1_RenderedKeys ==
    /\ NoDuplicates(items_fn)
    /\ Range(alive_items) \cap Range(leaving_items) = {}
    /\ microtasks = <<>> => rendered = items_fn

\* A cycle has just evicted a re-added key from the LeavingSet while other keys
\* are alive and leaving.
C1_Evicted ==
    /\ last = "cycle"
    /\ \E i \in 1..Len(events) : events[i].ev = "evict"
    /\ alive_items # <<>>
    /\ leaving_items # <<>>

LatestPass ==
    IsPass /\ Head(microtasks).cycle > 1 /\ Head(microtasks).cycle = cycles

\* C2, the removed keys: each key that leaves the collection is in the
\* LeavingSet afterwards and has exactly one leave animation started.
C2_Leave ==
    (IsUpdate /\ mode = "client" /\ cycles >= 1 /\ AllMounted(alive_items)) =>
        \A k \in Range(alive_items) \ Range(alive_items') :
            /\ Contains(leaving_items', k)
            /\ Cardinality(StartsOf(events', k, "leave")) = 1

\* C2, the added keys: the deferred pass of the cycle starts exactly one enter
\* animation for each key the cycle added.
C2_Enter ==
    (LatestPass /\ Settled(Head(microtasks))) =>
        \A k \in Added(Head(microtasks)) :
            Cardinality(StartsOf(events', k, "enter")) = 1

\* C2, the kept keys: a key the cycle kept has the view it had (no remount), and
\* the pass starts a move animation for it iff its after snapshot differs from
\* its before snapshot.
C2_Keep ==
    (LatestPass /\ Settled(Head(microtasks))) =>
        \A k \in Kept(Head(microtasks)) :
            /\ mounts[k] = Head(microtasks).mounts[k]
            /\ alive_items_meta[k] # None =>
                ((StartsOf(events', k, "move") # {}) <=>
                    ~same_snapshot(Unwrap(Head(microtasks).snapshots[k]),
                                   get_el_snapshot(k, animate_size)))

\* C2: in an interactive cycle after the first, with every old alive item
\* mounted and attached and no later cycle begun before its deferred pass, the
\* keys that left the collection are leaving with exactly one leave animation
\* started, the keys that joined it get exactly one enter animation in the
\* cycle's deferred pass, and the keys that stayed keep their element and get a
\* move animation iff their after snapshot differs from their before snapshot.
C2_Cycle == [][C2_Leave /\ C2_Enter /\ C2_Keep]_vars

\* The keys of the LeavingSet that the cycle found in its new collection.
Evicted(task) == Range(task.new_items) \cap Range(task.old_leaving)

\* C3: a key of the LeavingSet that reappears in the new collection is taken
\* out of the LeavingSet by that cycle and is treated as a new item: by the
\* cycle's deferred pass its view has been built again (a new element, a new
\* ItemMeta) and the pass starts an enter animation for it.
C3_Readded ==
    [][/\ (IsUpdate /\ mode = "client") =>
            \A k \in Range(alive_items') : ~Contains(leaving_items', k)
       /\ LatestPass =>
            \A k \in Evicted(Head(microtasks)) :
                /\ mounts[k] > Head(microtasks).mounts[k]
                /\ alive_items_meta[k] # None
                /\ StartsOf(events', k, "enter") # {}]_vars

\* C4: once the queued work is done and every leave animation that was started
\* has finished, no key is left in the LeavingSet.
C4_Drained ==
    (/\ microtasks = <<>>
     /\ pending = {}
     /\ \A a \in animations : a.kind # "leave") => leaving_items = <<>>

\* C5: no element has more than one running animation started by the engine,
\* and no animation is started on an element while another one is running on it
\* (the stored one has been cancelled first).
C5_OneAnimation ==
    /\ \A a, b \in animations : (a.key = b.key /\ a.el = b.el) => a = b
    /\ \A i \in 1..Len(events) : events[i].ev = "animate" => events[i].active = 0

\* C6: after a cycle the AliveSet holds the keys of the new collection in its
\* order, the keys the cycle removed come after the keys that were leaving
\* already, and the keys that stay in the LeavingSet keep their relative order
\* in every step (a finish, an eviction).
C6_Order ==
    [][/\ IsUpdate => alive_items' = NewItemsOf(events')
       /\ \A a, b \in Range(leaving_items) \cap Range(leaving_items') :
            IndexOf(leaving_items, a) < IndexOf(leaving_items, b)
                => IndexOf(leaving_items', a) < IndexOf(leaving_items', b)
       /\ \A a \in Range(leaving_items) \cap Range(leaving_items') :
            \A b \in Range(leaving_items') \ Range(leaving_items) :
                IndexOf(leaving_items', a) < IndexOf(leaving_items', b)]_vars

\* C7: by the deferred pass of a cycle (no later cycle begun) the child-render
\* function has been invoked exactly once since the cycle for every key the
\* cycle added to the AliveSet, a key re-added while leaving included, and not
\* at all for a key the cycle kept, whose view was built before.
C7_Children ==
    [][LatestPass =>
         /\ \A k \in Added(Head(microtasks)) :
                mounts[k] = Head(microtasks).mounts[k] + 1
         /\ Settled(Head(microtasks)) =>
                \A k \in Kept(Head(microtasks)) :
                    mounts[k] = Head(microtasks).mounts[k]]_vars

NumPasses(q) == Cardinality({i \in 1..Len(q) : q[i].type = "pass"})

\* C8: a cycle on the server or during hydration makes the AliveSet exactly the
\* new collection, clears every ItemMeta, leaves the LeavingSet as it is, takes
\* no snapshot, queues no deferred pass and starts no animation.
C8_NonInteractive ==
    [][(IsUpdate /\ mode # "client") =>
         /\ alive_items' = NewItemsOf(events')
         /\ \A k \in Keys : alive_items_meta'[k] = None
         /\ leaving_items' = leaving_items
         /\ \A i \in 1..Len(events') :
                events'[i].ev \notin {"snapshot", "animate", "queue_microtask", "listen"}
         /\ NumPasses(microtasks') = NumPasses(microtasks)
         /\ animations' = animations
         /\ pending' = pending]_vars

\* A non-interactive cycle has just replaced a collection whose views had been
\* built (and registered in ItemMeta) by another one.
C8_Replaced ==
    /\ last = "cycle"
    /\ events[1].kind = "non-interactive"
    /\ cycles >= 2
    /\ alive_items # <<>>
    /\ \E k \in Keys : mounts[k] > 0 /\ ~Contains(alive_items, k)

\* C9: with appear = false the deferred pass of the second cycle starts no
\* enter animation for an item the second cycle kept from the initial
\* collection; with appear = true the first deferred pass starts an enter
\* animation for every item of the initial collection.
C9_Appear ==
    [][/\ (IsPass /\ ~appear /\ Head(microtasks).cycle = 2) =>
            \A k \in Kept(Head(microtasks)) : StartsOf(events', k, "enter") = {}
       /\ (IsPass /\ appear /\ Head(microtasks).cycle = 1 /\ cycles = 1) =>
            \A k \in Range(Head(microtasks).new_items) :
                StartsOf(events', k, "enter") # {}]_vars

\* The step is a cycle given the collection the previous cycle was given.
Reapply ==
    IsUpdate /\ mode = "client" /\ cycles >= 1 /\ NewItemsOf(events') = alive_items

\* The step is the deferred pass of such a cycle.
ReapplyPass ==
    /\ IsPass
    /\ Head(microtasks).cycle > 1
    /\ Head(microtasks).new_items = Head(microtasks).old_items

C11_NoEnterOnRemoved ==
    \A a \in animations : a.kind = "enter" => Contains(alive_items, a.key)

\* C12: the deferred pass starts a move animation for an alive item with a
\* before snapshot iff its position differs from the before snapshot by 0.1 or
\* more on the x or the y axis, or size tracking is enabled and its width or
\* height differs by 0.1 or more; the size is not looked at with size tracking
\* disabled.
C12_MoveThreshold ==
    [][IsPass =>
         \A k \in Keys :
            (/\ Contains(alive_items, k)
             /\ alive_items_meta[k] # None
             /\ Head(microtasks).snapshots[k] # None) =>
                LET before == Unwrap(Head(microtasks).snapshots[k])
                    after == get_el_snapshot(k, TRUE)
                    dw == Abs(Unwrap(before.extent).width - Unwrap(after.extent).width)
                    dh == Abs(Unwrap(before.extent).height - Unwrap(after.extent).height)
                IN (StartsOf(events', k, "move") # {}) <=>
                        \/ Abs(before.position.x - after.position.x) >= Tolerance
                        \/ Abs(before.position.y - after.position.y) >= Tolerance
                        \/ animate_size /\ (dw >= Tolerance \/ dh >= Tolerance)]_vars

\* A pass has just found an item less than 0.1 away from its before snapshot,
\* but not where it was, and started no move animation for it.
C12_BelowThreshold ==
    /\ last = "pass"
    /\ \E i \in 1..Len(events) :
          /\ events[i].ev = "snapshot_after"
          /\ events[i].active > 0
          /\ events[i].active < Tolerance
          /\ StartsOf(events, events[i].key, "move") = {}

\* Where in a log the entries of the given kinds are.
At(evs, kinds) == {i \in 1..Len(evs) : evs[i].ev \in kinds}

\* C13: an interactive cycle invokes the post-snapshot callback exactly once,
\* after every before snapshot of the cycle (one for each registered, attached
\* element) and before the commit: before any ItemMeta is removed, any removed
\* element is pinned or animated and the sets are written.  The removed
\* elements are pinned where they were before the callback, and the cycle takes
\* no after snapshot (its deferred pass does).
C13_AfterSnapshot ==
    [][(IsUpdate /\ mode = "client") =>
         /\ Cardinality(At(events', {"on_after_snapshot"})) = 1
         /\ \A c \in At(events', {"on_after_snapshot"}) :
               /\ \A i \in At(events', {"snapshot"}) : i < c
               /\ \A i \in At(events', {"remove_meta", "pause", "on_leave_start", "pin",
                                        "listen", "animate", "cancel", "commit",
                                        "queue_microtask"}) : i > c
         /\ {events'[i].key : i \in At(events', {"snapshot"})}
               = {k \in Keys : /\ alive_items_meta[k] # None
                               /\ Contains(rendered, k)
                               /\ connected[k]}
         /\ At(events', {"snapshot_after"}) = {}
         /\ \A i \in At(events', {"pin"}) :
               LET k == events'[i].key
                   before == get_el_snapshot(k, TRUE)
               IN /\ pin'[k] # None
                  /\ Unwrap(pin'[k]).left = before.position.x
                  /\ Unwrap(pin'[k]).top = before.position.y
                  /\ Unwrap(pin'[k]).width = Unwrap(before.extent).width
                  /\ Unwrap(pin'[k]).height = Unwrap(before.extent).height]_vars

\* A cycle whose callback changed the container's class has just pinned a
\* removed element, not the first of its row, at the size it had before.
C13_PinnedBeforeChange ==
    /\ last = "cycle"
    /\ \E i \in At(events, {"pin"}) :
          /\ pin[events[i].key] # None
          /\ Unwrap(pin[events[i].key]).width # CellWidth(layout)
          /\ Unwrap(pin[events[i].key]).left > 0

\* The keys a cycle removed from the AliveSet with a before snapshot: those
\* whose leave animation the commit starts or schedules.
Left(task) ==
    {k \in Range(task.old_items) \ Range(task.new_items) : task.snapshots[k] # None}

PassesOf(q) == SelectSeq(q, LAMBDA t : t.type = "pass")

\* C15: the deferred pass queued by a cycle holds the before snapshots that
\* cycle took; a later cycle leaves the passes queued before it as they are;
\* and a pass starts an enter animation for exactly the registered keys its own
\* map has no snapshot of, a move animation only for keys its own map has.
C15_OwnSnapshots ==
    [][/\ (IsUpdate /\ mode = "client") =>
            /\ SubSeq(PassesOf(microtasks'), 1, Len(PassesOf(microtasks)))
                  = PassesOf(microtasks)
            /\ \A i \in (Len(PassesOf(microtasks)) + 1)..Len(PassesOf(microtasks')) :
                  /\ PassesOf(microtasks')[i].cycle = cycles + 1
                  /\ PassesOf(microtasks')[i].snapshots = before_snapshots
       /\ IsPass =>
            \A k \in Keys :
                /\ (StartsOf(events', k, "enter") # {}) <=>
                      (alive_items_meta[k] # None /\ Head(microtasks).snapshots[k] = None)
                /\ (StartsOf(events', k, "move") # {}) =>
                      (alive_items_meta[k] # None /\ Head(microtasks).snapshots[k] # None)]_vars

\* Two cycles overlap: the pass of the earlier one has just started an enter
\* animation for a key that the map of the later one, still queued, has a
\* snapshot of.
C15_Overlap ==
    /\ last = "pass"
    /\ \E k \in Keys, i \in 1..Len(microtasks) :
          /\ StartsOf(events, k, "enter") # {}
          /\ microtasks[i].type = "pass"
          /\ microtasks[i].snapshots[k] # None

\* The keys that were alive and had their view built when the cycle ran, but
\* got no before snapshot from it.
Unmeasured(task) ==
    {k \in Range(task.old_items) : task.mounts[k] > 0 /\ task.snapshots[k] = None}

\* C17: an alive item whose element is detached when a cycle takes its
\* snapshots gets no before snapshot, and neither the cycle nor its deferred
\* pass starts an enter, move or leave animation for it.
C17_DetachedSkipped ==
    [][/\ (IsUpdate /\ mode = "client") =>
            \A k \in Range(alive_items) :
                (alive_items_meta[k] # None /\ ~connected[k]) =>
                    /\ \A i \in At(events', {"snapshot", "animate"}) : events'[i].key # k
                    /\ alive_items' = NewItemsOf(events')
       /\ IsPass =>
            \A k \in Unmeasured(Head(microtasks)) :
                mounts[k] = Head(microtasks).mounts[k] =>
                    \A i \in At(events', {"animate"}) : events'[i].key # k]_vars

\* C18: when measuring the element of one key fails, the cycle still commits
\* the sets for the whole collection (the alive keys become the collection
\* given) and still starts the leave animation of every other removed key.
C18_FailureIsLocal ==
    [][(IsUpdate /\ mode = "client") =>
          /\ alive_items' = NewItemsOf(events')
          /\ \A k \in Range(alive_items) \ Range(alive_items') :
                (alive_items_meta[k] # None /\ connected[k] /\ measurable[k]) =>
                    \E a \in animations' : a.key = k /\ a.kind = "leave"]_vars

\* The strategy the override function gives the item of key k, if any.
Overridden(override, k) == override # None /\ k \in Unwrap(override)

\* C19: an enter (leave) animation is started with the override's strategy when
\* the enter (leave) override function returns one for the item, and with the
\* component's default strategy when it returns none or is not given.
C19_Override ==
    [][\A i \in Starts(events') :
          LET e == events'[i]
          IN /\ e.kind = "enter" =>
                   (e.strategy = "override" <=> Overridden(enter_anim_override, e.key))
             /\ e.kind = "leave" =>
                   (e.strategy = "override" <=> Overridden(leave_anim_override, e.key))]_vars

\* Nothing is left to run: no microtask is queued and no leave animation is
\* running or waiting to be started.
Quiescent ==
    /\ microtasks = <<>>
    /\ pending = {}
    /\ \A a \in animations : a.kind # "leave"

\* C20: AnimatedShow never renders more than one child, and once nothing is
\* left to run the child is rendered iff `when`, the value the last cycle was
\* given, is true.
C20_Show ==
    /\ Len(rendered) <= 1
    /\ (cycles > 0 /\ Quiescent) =>
          (Contains(rendered, ShowKey) <=> alive_items = AnimatedShow_each(TRUE))

\* The step is a call of the callback SizeTransition gave its ResizeObserver.
IsObserve == size_snapshot' # size_snapshot \/ resize_animations' # resize_animations

\* C21: the first size observation only records the baseline and starts no
\* animation; every later one starts exactly one resize animation, from the
\* recorded extent to the observed one, and records the observed extent.
C21_Baseline ==
    [][IsObserve =>
          /\ size_snapshot' # None
          /\ IF size_snapshot = None
             THEN resize_animations' = resize_animations
             ELSE /\ Len(resize_animations') = Len(resize_animations) + 1
                  /\ SubSeq(resize_animations', 1, Len(resize_animations))
                        = resize_animations
                  /\ resize_animations'[Len(resize_animations')].from = Unwrap(size_snapshot)
                  /\ resize_animations'[Len(resize_animations')].to = Unwrap(size_snapshot')]_vars

\* Two animations were started, the second from where the first ended.
C21_TwoResizes ==
    /\ Len(resize_animations) = 2
    /\ resize_animations[2].from = resize_animations[1].to
    /\ resize_animations[2].to = Unwrap(size_snapshot)

\* C22: a resize animation from (w0, h0) to (w1, h1) has exactly two keyframes,
\* on marginRight and marginBottom only: (w0 - w1, h0 - h1) px, then (0, 0) px.
C22_MarginKeyframes ==
    \A i \in 1..Len(resize_animations) :
        LET a == resize_animations[i]
        IN /\ Len(a.keyframes) = 2
           /\ \A j \in 1..2 : DOMAIN a.keyframes[j] = {"marginRight", "marginBottom"}
           /\ a.keyframes[1].marginRight = [value |-> a.from.width - a.to.width, unit |-> "px"]
           /\ a.keyframes[1].marginBottom = [value |-> a.from.height - a.to.height, unit |-> "px"]
           /\ a.keyframes[2].marginRight = [value |-> 0, unit |-> "px"]
           /\ a.keyframes[2].marginBottom = [value |-> 0, unit |-> "px"]

\* A resize animation that grows the width and shrinks the height.
C22_Resized ==
    \E i \in 1..Len(resize_animations) :
        /\ resize_animations[i].from.width < resize_animations[i].to.width
        /\ resize_animations[i].from.height > resize_animations[i].to.height

\* C24: a FadeAnimation is 200 ms and ease-out by default; its enter() gives
\* the two keyframes opacity 0, 1 and its leave() the two keyframes opacity
\* 1, 0, both with the duration and the timing function of the value.
C24_Fade ==
    /\ fade_animation = [duration |-> 200, timing_fn |-> "ease-out"]
    /\ [][(animation_config' # None /\ fade_animation' = fade_animation) =>
            LET r == Unwrap(animation_config')
            IN /\ r.config.duration = fade_animation.duration
               /\ r.config.timing_fn = <<fade_animation.timing_fn>>
               /\ r.call = "enter" => r.config.keyframes = <<[opacity |-> 0], [opacity |-> 1]>>
               /\ r.call = "leave" => r.config.keyframes = <<[opacity |-> 1], [opacity |-> 0]>>]_vars

\* leave() was called on a FadeAnimation made by new().
C24_CustomLeave ==
    /\ animation_config # None
    /\ Unwrap(animation_config).call = "leave"
    /\ fade_animation.duration # 200
    /\ fade_animation.timing_fn # "ease-out"

\* C23: DynamicsAnimation::new ends for every f, z and r, and the timing
\* function it returns holds at most 1000 samples.
C23_SampleCap ==
    /\ data <= IterationCap + 1
    /\ dynamics_animation # None => Unwrap(dynamics_animation).samples <= IterationCap

\* C25: for f > 0 and z >= 0.5 the loop of new() ends with a velocity below
\* 0.01 in magnitude, within the cap of 1000 samples.
C25_Converges ==
    (/\ dynamics_animation # None
     /\ Unwrap(dynamics_args).f > 0
     /\ Unwrap(dynamics_args).z >= Unit \div 2) =>
        /\ Unwrap(dynamics_animation).samples <= IterationCap
        /\ Abs(Unwrap(dynamics).yd) < Unit \div 100

\* C26: when the deferred pass of a cycle runs, every key the cycle added to
\* the alive items, and that is still alive, has its view mounted and
\* registered in ItemMeta, and the pass starts an enter animation on that
\* element.
C26_EnterAfterMount ==
    [][IsPass =>
          \A k \in Added(Head(microtasks)) \cap Range(alive_items) :
              /\ Contains(rendered, k)
              /\ alive_items_meta[k] # None
              /\ \E a \in animations' :
                    /\ a.key = k
                    /\ a.kind = "enter"
                    /\ a.el = mounts[k]
                    /\ a \notin animations]_vars

\* A step of the onfinish closure of a leave animation.
IsFinish == events'[1].ev = "finish"

\* C27: when a leave animation finishes, a key leaves leaving_items only if
\* the finished animation is not one that a previous stay of the key in
\* leaving_items started, and alive_items is as it was.
C27_CurrentOccurrence ==
    [][IsFinish =>
          /\ alive_items' = alive_items
          /\ \A a \in animations \ animations' :
                a \in stale.leaves => leaving_items' = leaving_items]_vars

\* C28: whenever no microtask is queued (no cycle is running and every view
\* is mounted), alive_items_meta holds an ItemMeta for exactly the keys of
\* alive_items, each with an element handle unless rendering on the server.
C28_MetaIsAlive ==
    microtasks = <<>> =>
        \A k \in Keys :
            /\ alive_items_meta[k] # None <=> Contains(alive_items, k)
            /\ (alive_items_meta[k] # None /\ mode # "ssr")
                  => Unwrap(alive_items_meta[k]).el # None

\* The step is a cycle that reached its commit (lines 460-608).
IsCommit == IsUpdate /\ \E i \in 1..Len(events') : events'[i].ev = "commit"

\* C29: a cycle that commits does so in one step, in which the renderer does
\* not run: alive_items becomes the collected new collection, and every key
\* that was alive is afterwards in exactly one of alive_items (it is in the
\* new collection) and leaving_items (it is not).
C29_AtomicCommit ==
    [][IsCommit =>
          /\ alive_items' = NewItemsOf(events')
          /\ rendered' = rendered
          /\ \A k \in Range(alive_items) :
                /\ Contains(alive_items', k) <=> Contains(NewItemsOf(events'), k)
                /\ Contains(leaving_items', k) <=> ~Contains(alive_items', k)]_vars

\* A cycle has just committed a collection that keeps one alive key, drops
\* another and holds a new one.
C29_Replaced ==
    /\ last = "cycle"
    /\ \E i \in 1..Len(events) : events[i].ev = "commit"
    /\ \E i \in 1..Len(events) :
          /\ events[i].ev = "on_leave_start"
          /\ Contains(leaving_items, events[i].key)
    /\ \E k \in Range(alive_items) : alive_items_meta[k] # None
    /\ \E k \in Range(alive_items) : ~Contains(rendered, k)

\* What is running or waiting to run for the key k.
RunningFor(anims, starts, k) ==
    <<{a \in anims : a.key = k}, {p \in starts : p.key = k}>>

\* C30: a cycle does not touch a key that is in leaving_items and not in the
\* new collection: the key stays in leaving_items, its entry is not written
\* (it is not among the drained alive entries), and its animations and pending
\* leave starts are the same, none cancelled and none started.
C30_LeavingUntouched ==
    [][IsUpdate =>
          \A k \in Range(leaving_items) \ Range(NewItemsOf(events')) :
              /\ Contains(leaving_items', k)
              /\ ~Contains(alive_items, k)
              /\ RunningFor(animations', pending', k)
                    = RunningFor(animations, pending, k)
              /\ \A i \in 1..Len(events') :
                    events'[i].key = k =>
                        events'[i].ev \notin {"animate", "cancel", "evict"}]_vars

\* A cycle has just committed while a key that an earlier cycle removed is
\* leaving with its leave animation running, and the cycle evicted another
\* leaving key and removed an alive one.
C30_StillLeaving ==
    /\ last = "cycle"
    /\ \E i \in 1..Len(events) : events[i].ev = "evict"
    /\ \E i \in 1..Len(events) : events[i].ev = "on_leave_start"
    /\ \E k \in Range(leaving_items) :
          /\ \A i \in 1..Len(events) : events[i].key # k
          /\ \E a \in animations : a.key = k /\ a.kind = "leave"

\* C31: the deferred pass starts no enter and no move animation for a key
\* that is in leaving_items when the pass runs.
C31_NoPassOnLeaving ==
    [][IsPass =>
          \A k \in Range(leaving_items) :
              StartsOf(events', k, "enter") \cup StartsOf(events', k, "move") = {}]_vars

\* C32: a cycle pauses the Owner of a removed item's view before it starts the
\* item's leave animation, a paused Owner is never active again, and no item
\* in leaving_items has a view whose Owner is active.
C32_PausedWhileLeaving ==
    [][/\ IsUpdate =>
            \A k \in Keys : \A i \in StartsOf(events', k, "leave") :
                \E j \in 1..(i - 1) : events'[j].ev = "pause" /\ events'[j].key = k
       /\ \A k \in Keys : observer[k] = "paused" => observer'[k] # "active"
       /\ \A k \in Range(leaving_items') : observer'[k] # "active"]_vars

\* C33: once every queued render and pass has run, the Owner of the view of
\* every item of alive_items is active.
C33_AliveIsActive ==
    microtasks = <<>> => \A k \in Range(alive_items) : observer[k] = "active"

\* C34: with compensate_window_scroll, the scroll listener and the timeout of
\* a removed item start one leave animation between them: no element has two
\* leave animations running, however many scroll events fire.
C34_OneLeaveStart ==
    compensate_window_scroll =>
        \A p \in pending : Cardinality(LeavesOn(animations, p.key, p.el)) <= 1

C36_MoveKeyframes ==
    [][IsPass =>
          \A i \in Starts(events') :
             events'[i].kind = "move" =>
                LET k == events'[i].key
                    b == Unwrap(Head(microtasks).snapshots[k])
                    a == get_el_snapshot(k, animate_size)
                    kf == events'[i].keyframes
                IN /\ Len(kf) = 2
                   /\ kf[1].transform = <<"translate", Px(b.position.x - a.position.x),
                                                        Px(b.position.y - a.position.y)>>
                   /\ kf[2].transform = <<"none">>
                   /\ IF animate_size
                      THEN /\ kf[1].width = Some(Px(Unwrap(b.extent).width))
                           /\ kf[1].height = Some(Px(Unwrap(b.extent).height))
                           /\ kf[2].width = Some(Px(Unwrap(a.extent).width))
                           /\ kf[2].height = Some(Px(Unwrap(a.extent).height))
                      ELSE \A j \in 1..2 : kf[j].width = None /\ kf[j].height = None]_vars

\* With size tracking, a pass has just started a move animation for an
\* element that went to another place and has another width.
C36_MovedAndResized ==
    /\ last = "pass"
    /\ animate_size
    /\ \E i \in Starts(events) :
          /\ events[i].kind = "move"
          /\ events[i].keyframes[1].transform[2].value # 0
          /\ events[i].keyframes[1].width # events[i].keyframes[2].width

\* The step is a change of the content of AnimatedSwap.
IsSwap == key' # key

\* C37: every change of AnimatedSwap's content gives the effect a key that no
\* view which is alive, leaving or rendered has: afterwards alive_items holds
\* that key alone, whose view is still to be built, and the key that was alive
\* is in leaving_items.
C37_FreshKey ==
    [][IsSwap =>
          /\ Len(alive_items') = 1
          /\ \A k \in Range(alive_items') :
                /\ ~Contains(alive_items, k)
                /\ ~Contains(leaving_items, k)
                /\ ~Contains(rendered, k)
          /\ \A k \in Range(alive_items) : Contains(leaving_items', k)]_vars

\* C38: a snapshot taken with handle_margins leaves the inline style of the
\* element exactly as it was before the call: the margin that is zeroed for
\* the read has its previous inline value again.
IsSnapshot == el_snapshot' # el_snapshot

C38_StyleRestored ==
    [][IsSnapshot /\ Unwrap(el_snapshot').handle_margins
          => Unwrap(element').style = Unwrap(element).style]_vars

====
